---- MODULE Spec2Model ----
(***************************************************************************)
(* Audio generation (investigative report / podcast) of librairian-web:    *)
(* the two SSE routes, the two dialogue pipelines, the shared              *)
(* generated-audio directory and the media route that serves it.           *)
(*                                                                         *)
(* A run is one call of generateInvestigativeReport or generatePodcast.    *)
(* Node runs each run's code between two awaits of real I/O atomically, so  *)
(* one action is one such stretch: it starts when an awaited external call  *)
(* (chat completion, speech synthesis, ffmpeg) completes and ends when the  *)
(* next one has been issued or the run has returned.                       *)
(*                                                                         *)
(* Abstractions: a generated text is its word count (what                  *)
(* estimateAudioDuration reads) and its origin <<serial, turn>>; an audio   *)
(* file holds the origin of the text it was synthesized from; sha256 is    *)
(* collision-free on the content strings that occur.                       *)
(***************************************************************************)
EXTENDS Integers, Sequences, FiniteSets, TLC

VARIABLES
  run,        \* slot -> the local state of the request running in it
  finals,     \* generated-audio/<id>.mp3 files: set of [id, data]
  tmpDirs,    \* generated-audio/<id> directories that exist
  tmpFiles,   \* per-turn files: set of [dir, idx, spk, tag]
  lists,      \* generated-audio/<id>.mp3.txt concat lists that exist
  env,        \* process.env: which credentials are configured
  started,    \* number of requests accepted so far
  produced,   \* history: [key, file] of every final file written so far
  resp,       \* last response of the media route
  db,         \* the Document, Page, HandwrittenNote and DocumentStamp tables
  sync,       \* the sync route: requests served so far and the last one
  grouped,    \* a list of documents and what groupRelatedDocuments made of it
  dialog,     \* the create-collection dialog and its job-status polling
  ctx         \* the document-group context of the client

vars == <<run, finals, tmpDirs, tmpFiles, lists, env, started, produced, resp,
          db, sync, grouped, dialog, ctx>>

\* what the audio routes never touch, and what the other routes never touch
elsewhere == <<db, sync, grouped, dialog, ctx>>
audioState == <<run, finals, tmpDirs, tmpFiles, lists, env, started, produced, resp>>

-----------------------------------------------------------------------------
(* Bounds                                                                  *)

MaxStarts == 2
MaxSoloStarts == 1
ManyGroups == 10
MaxPings == 2

Slots == {1, 2}

-----------------------------------------------------------------------------
(* Inputs                                                                  *)

Doc(id, url, places) ==
  [documentId |-> id, url |-> url, names |-> {}, places |-> places, dates |-> {}]

d1 == Doc("d1", "", {"Dallas"})
d2 == Doc("d2", "", {"Dallas"})

Article(id, url, title) == [id |-> id, url |-> url, title |-> title]

a1 == Article("a1", "u1", "")
a1moved == Article("a1", "u1b", "")

Body(kind, documents, articles, investigation, people, target) ==
  [kind |-> kind, documents |-> documents, articles |-> articles,
   investigation |-> investigation, people |-> people, target |-> target]

NoBody == Body("none", << >>, << >>, "", << >>, 0)

Items(b) == IF b.kind = "report" THEN b.documents ELSE b.articles

-----------------------------------------------------------------------------
(* Pure functions                                                          *)

RECURSIVE JoinComma(_)
JoinComma(keys) ==
  IF Len(keys) = 0 THEN << >>
  ELSE IF Len(keys) = 1 THEN <<keys[1]>>
  ELSE <<keys[1], ",">> \o JoinComma(Tail(keys))

Str(s) == IF s = "" THEN << >> ELSE <<s>>

DocKey(d) == IF d.documentId # "" THEN d.documentId
             ELSE IF d.url # "" THEN d.url ELSE "doc"

ArticleKey(a) == IF a.url # "" THEN a.url
                 ELSE IF a.title # "" THEN a.title ELSE a.id

\* sha256(content).hex.substring(0, 16), collision-free on these contents
Sha16(content) == <<"sha">> \o content

generateReportId(documents, investigation) ==
  Sha16(JoinComma([i \in 1..Len(documents) |-> DocKey(documents[i])])
        \o Str(investigation))

generatePodcastId(articles, hosts) ==
  Sha16(JoinComma([i \in 1..Len(articles) |-> ArticleKey(articles[i])])
        \o JoinComma(hosts))

RunId(b) == IF b.kind = "report"
            THEN generateReportId(b.documents, b.investigation)
            ELSE generatePodcastId(b.articles, b.people)

\* Math.ceil(words / 2.5)
estimateFloor(words) == (2 * words) \div 5
estimateAudioDuration(words) == (2 * words + 4) \div 5

hasOverlap(doc, other) ==
  \/ doc.names \cap other.names # {}
  \/ doc.places \cap other.places # {}
  \/ doc.dates \cap other.dates # {}

RECURSIVE UniqueDocs(_, _)
UniqueDocs(documents, seen) ==
  IF Len(documents) = 0 THEN << >>
  ELSE LET d == Head(documents) IN
       IF d.documentId # "" /\ d.documentId \notin seen
       THEN <<d>> \o UniqueDocs(Tail(documents), seen \cup {d.documentId})
       ELSE UniqueDocs(Tail(documents), seen)

RECURSIVE GroupFrom(_, _, _)
\* the outer loop of groupRelatedDocuments from position i, with `used`
GroupFrom(docArray, i, used) ==
  IF i > Len(docArray) THEN [groups |-> << >>, used |-> used]
  ELSE LET doc == docArray[i] IN
       IF doc.documentId \in used THEN GroupFrom(docArray, i + 1, used)
       ELSE LET others == SelectSeq(docArray,
                            LAMBDA o : o.documentId \notin used
                                       /\ o.documentId # doc.documentId
                                       /\ hasOverlap(doc, o))
                group == <<doc>> \o others
                used2 == used \cup {group[k].documentId : k \in 1..Len(group)}
                rest == GroupFrom(docArray, i + 1, used2)
            IN [groups |-> IF Len(group) > 1 THEN <<group>> \o rest.groups
                                             ELSE rest.groups,
                used |-> rest.used]

groupRelatedDocuments(documents) ==
  LET docArray == UniqueDocs(documents, {})
      g == GroupFrom(docArray, 1, {})
  IN [relatedGroups |-> g.groups,
      unrelated |-> SelectSeq(docArray, LAMBDA d : d.documentId \notin g.used)]

-----------------------------------------------------------------------------
(* The state of one run and of the files it shares with the others         *)

\* A file name is the tuple of the pieces of its string; a path is the tuple
\* of its names from the root.
cwd == << <<"app">> >>
AUDIO_DIR == cwd \o << <<"generated-audio">> >>
File(id) == id \o <<".mp3">>
Url(id) == <<"/api/generate/media?id=">> \o File(id)
outputDir(id) == AUDIO_DIR \o <<id>>
finalOutputPath(id) == AUDIO_DIR \o <<File(id)>>

NoResult == [success |-> FALSE, audioFile |-> << >>, audioUrl |-> << >>,
             error |-> "pending"]

IdleRun ==
  [pc |-> "idle", phase |-> "none", body |-> NoBody, id |-> << >>, serial |-> 0,
   dialogue |-> << >>, audioFiles |-> << >>, currentDuration |-> 0,
   turnIndex |-> 0, currentSpeakerIndex |-> 0, i |-> 0, j |-> 0,
   turn |-> [idx |-> 0, spk |-> "", words |-> 0],
   existingFiles |-> << >>, result |-> NoResult, events |-> << >>,
   genCalls |-> 0, ttsCalls |-> 0,
   \* history, read by the properties only
   prior |-> {}, cached |-> FALSE, failMsg |-> "", callsAtFail |-> 0,
   extFailed |-> FALSE, missingAtConcat |-> FALSE, ffmpegFailed |-> FALSE,
   concatOf |-> << >>,
   madeDir |-> FALSE, rmFailed |-> FALSE,
   strategy |-> "none",      \* what wrote the merged file, until the run returns
   genRequests |-> 0, genReturned |-> 0, ttsRequests |-> 0, ttsDirSteps |-> 0,
   estimates |-> << >>,
   \* the stream of the route: the keep-alive interval and the controller
   keepAlive |-> FALSE, closed |-> FALSE, pings |-> 0,
   closeCalls |-> 0, timerAtClose |-> FALSE, lateEnqueue |-> FALSE,
   \* per turn: the persona its text was generated with, the voice it was
   \* synthesized with
   authors |-> << >>, voicesUsed |-> << >>]

\* the part of the state one stretch of a run reads and writes
World(r) == [me |-> run[r], finals |-> finals, dirs |-> tmpDirs,
             files |-> tmpFiles, lists |-> lists, produced |-> produced]

Commit(r, w) ==
  /\ run' = [run EXCEPT ![r] = w.me]
  /\ finals' = w.finals
  /\ tmpDirs' = w.dirs
  /\ tmpFiles' = w.files
  /\ lists' = w.lists
  /\ produced' = w.produced

existsFinal(fs, id) == \E f \in fs : f.id = id
existsTurn(files, dir, name) ==
  \E f \in files : f.dir = dir /\ f.idx = name.idx /\ f.spk = name.spk
readTurn(files, dir, name) ==
  (CHOOSE f \in files : f.dir = dir /\ f.idx = name.idx /\ f.spk = name.spk).tag

\* try { fs.rmSync(outputDir, { recursive: true }) } catch { /* logged */ }
rmDir(w, id) ==
  IF env.rmOk
  THEN [w EXCEPT !.dirs = @ \ {id}, !.files = {f \in @ : f.dir # id}]
  ELSE [w EXCEPT !.me.rmFailed = TRUE]

\* fs.mkdirSync(outputDir, { recursive: true }) when it does not exist
mkDir(w, id) == [w EXCEPT !.dirs = @ \cup {id}, !.me.madeDir = TRUE]

\* sendEvent of the route: controller.enqueue throws once the stream is closed
sendEvent(w, ev) ==
  IF w.me.closed THEN [w EXCEPT !.me.lateEnqueue = TRUE]
  ELSE [w EXCEPT !.me.events = Append(@, ev)]

\* clearInterval(keepAliveInterval)
clearIntervalLeak(w) == w
clearInterval(w) == [w EXCEPT !.me.keepAlive = FALSE]

\* controller.close(): a call on a closed controller throws a TypeError
close(w) ==
  [w EXCEPT !.me.closed = TRUE, !.me.closeCalls = @ + 1,
            !.me.timerAtClose = @ \/ w.me.keepAlive]

\* finally { clearInterval(keepAliveInterval); controller.close(); }
finally(w) == close(clearInterval(w))

\* onProgress as the route passes it: one SSE message per invocation
onProgress(w, status) ==
  sendEvent(w, <<IF w.me.body.kind = "report" THEN "investigationUpdate"
                 ELSE "progress", status>>)

\* the run has returned `res`: the route's terminal event (route.ts 78-90)
ReturnBoth(w, res) ==
  LET done == [w EXCEPT !.me.pc = "done", !.me.phase = "none", !.me.result = res,
                        !.me.strategy = "none"]
      told == IF res.success
              THEN sendEvent(done, <<IF w.me.body.kind = "report"
                                     THEN "reportComplete"
                                     ELSE "podcastComplete", File(w.me.id)>>)
              ELSE done
  IN finally(sendEvent(told, <<"error", res.error>>))
Return(w, res) ==
  LET done == [w EXCEPT !.me.pc = "done", !.me.phase = "none", !.me.result = res,
                        !.me.strategy = "none"]
  IN finally(IF res.success
             THEN sendEvent(done, <<IF w.me.body.kind = "report" THEN "reportComplete"
                                    ELSE "podcastComplete", File(w.me.id)>>)
             ELSE sendEvent(done, <<"error", res.error>>))

\* the catch block of the generators: cleanup, then success=false
FailKeepingFiles(w, msg) ==
  Return(w, [success |-> FALSE, audioFile |-> << >>, audioUrl |-> << >>,
             error |-> msg])
Fail(w, msg) ==
  Return(IF w.me.id \in w.dirs THEN rmDir(w, w.me.id) ELSE w,
         [success |-> FALSE, audioFile |-> << >>, audioUrl |-> << >>,
          error |-> msg])

\* a generateText / synthesizeSpeech call of the run threw `msg`
CallFailedRetry(w, msg) ==
  [w EXCEPT !.me.failMsg = IF @ = "" THEN msg ELSE @,
            !.me.callsAtFail = IF w.me.failMsg = ""
                               THEN w.me.genCalls + w.me.ttsCalls ELSE @,
            !.me.genCalls = IF w.me.pc = "tts" THEN @ ELSE @ + 1,
            !.me.ttsCalls = IF w.me.pc = "tts" THEN @ + 1 ELSE @]
CallFailed(w, msg) ==
  Fail([w EXCEPT !.me.failMsg = msg,
                 !.me.callsAtFail = w.me.genCalls + w.me.ttsCalls], msg)

\* generateText up to its fetch: the credential check, then one request
IssueTextUnchecked(w, phase) ==
  [w EXCEPT !.me.genCalls = @ + 1, !.me.pc = "text", !.me.phase = phase,
            !.me.genRequests = @ + 1]
IssueText(w, phase) ==
  LET called == [w EXCEPT !.me.genCalls = @ + 1]
  IN IF ~env.xai THEN CallFailed(called, "XAI_API_KEY is not configured")
     ELSE [called EXCEPT !.me.pc = "text", !.me.phase = phase,
                         !.me.genRequests = @ + 1]

\* config.ts: personalities (the name and the voice of each)
personalities ==
  [reporter |-> [name |-> "Sadie Woodward", voice |-> "sadie"],
   privateEye |-> [name |-> "John Marlowe", voice |-> "john"],
   host1 |-> [name |-> "John", voice |-> "john"],
   host2 |-> [name |-> "Sadie", voice |-> "sadie"]]

\* synthesizeDialogueTurn: the voice is chosen from the speaker id
voiceOfSpeaker(speakerId) ==
  IF speakerId \in {"john", "privateEye", "host1"} THEN "john" ELSE "sadie"

\* dialogue.push, then synthesizeDialogueTurn -> synthesizeSpeech up to its fetch
IssueSpeech(w, spk, idx, words) ==
  LET pushed == [w EXCEPT !.me.dialogue =
                     Append(@, [speaker |-> spk, text |-> <<w.me.serial, idx>>]),
                   !.me.turn = [idx |-> idx, spk |-> spk, words |-> words],
                   !.me.voicesUsed = Append(@, voiceOfSpeaker(spk)),
                   !.me.ttsCalls = @ + 1]
  IN IF ~env.eleven
     THEN CallFailed(pushed, "ELEVENLABS_API_KEY is not configured")
     ELSE [mkDir(pushed, w.me.id) EXCEPT !.me.pc = "tts",
                                         !.me.ttsDirSteps = @ + 1,
                                         !.me.ttsRequests = @ + 1]

-----------------------------------------------------------------------------
(* The dialogue assembler                                                  *)

TurnCap == 20

Speaker(me, n) == IF n <= Len(me.body.people) THEN me.body.people[n] ELSE "undefined"

\* speaker1 = personalities[key1] || personalities.reporter (report),
\* personalities.host1 (podcast); speaker2 likewise with privateEye, host2
speakerPersonality(me, n) ==
  LET key == Speaker(me, n)
      fallback == IF me.body.kind = "report"
                  THEN (IF n = 1 THEN "reporter" ELSE "privateEye")
                  ELSE (IF n = 1 THEN "host1" ELSE "host2")
  IN IF key \in DOMAIN personalities THEN personalities[key]
     ELSE personalities[fallback]

\* which of speaker1, speaker2 the text of the current phase was generated with
author(me) ==
  IF me.phase = "response" THEN 2
  ELSE IF me.phase = "content" THEN (me.currentSpeakerIndex % 2) + 1
  ELSE 1

\* currentDuration < targetLengthSeconds * 0.8 (report), * 0.75 (podcast)
belowThresholdInclusive(me) ==
  IF me.body.kind = "report"
  THEN 5 * me.currentDuration <= 4 * me.body.target
  ELSE 4 * me.currentDuration <= 3 * me.body.target
belowThreshold(me) ==
  IF me.body.kind = "report"
  THEN 5 * me.currentDuration < 4 * me.body.target
  ELSE 4 * me.currentDuration < 3 * me.body.target

\* dialogue.push({ speaker: investigator1Key, text: closingComment })
closingSpeakerNext(me) == Speaker(me, (me.currentSpeakerIndex % 2) + 1)
closingSpeaker(me) == Speaker(me, 1)

\* Step 4: the closing turn's text is requested
ClosingComplete(w) == IssueText(onProgress(w, "complete"), "closing")
Closing(w) == IssueText(onProgress(w, "concluding"), "closing")

\* the two nested for loops of the report, from (i, j), up to the next await
reportLoop(w) ==
  LET n == Len(groupRelatedDocuments(w.me.body.documents).relatedGroups)
  IN IF belowThreshold(w.me) /\ w.me.i < n /\ w.me.j < 2
     THEN IssueText(IF w.me.j = 0 THEN onProgress(w, "analyzing") ELSE w, "content")
     ELSE IF belowThreshold(w.me) /\ w.me.i + 1 < n
     THEN IssueText(onProgress([w EXCEPT !.me.i = @ + 1, !.me.j = 0], "analyzing"),
                    "content")
     ELSE Closing(w)

\* if (turnIndex > 20) break
safetyLimitNone(me) == FALSE
safetyLimit(me) == me.turnIndex > TurnCap

\* the while loop of the podcast, up to the next await; `again` after a turn
podcastLoop(w, again) ==
  IF (again /\ safetyLimit(w.me)) \/ ~belowThreshold(w.me) THEN Closing(w)
  ELSE IF Len(w.me.body.articles) = 0
  THEN Fail(onProgress(w, "generating"), "TypeError: Cannot read properties of undefined")
  ELSE IssueText(onProgress(w, "generating"), "content")

contentLoop(w, again) ==
  IF w.me.body.kind = "report" THEN reportLoop(w) ELSE podcastLoop(w, again)

\* concatenateAudioFiles up to `await checkFfmpegAvailable()`
concatenateAudioFiles(w) ==
  LET me == w.me
      existingFiles == SelectSeq(me.audioFiles,
                         LAMBDA name : existsTurn(w.files, me.id, name))
      seen == [w EXCEPT !.me.existingFiles = existingFiles,
                        !.me.missingAtConcat = (existingFiles # me.audioFiles)]
  IN IF Len(existingFiles) = 0 THEN Fail(seen, "No audio files to concatenate")
     ELSE [seen EXCEPT !.me.pc = "ffcheck"]

\* fs.writeFileSync(outputPath, audio) of synthesizeSpeech, then the caller's
\* audioFiles.push and currentDuration +=, then on to the next await
afterSpeech(w) ==
  LET me == w.me
      name == [idx |-> me.turn.idx, spk |-> me.turn.spk]
      written == [w EXCEPT
        !.files = {f \in @ : ~(f.dir = me.id /\ f.idx = name.idx /\ f.spk = name.spk)}
                  \cup {[dir |-> me.id, idx |-> name.idx, spk |-> name.spk,
                         tag |-> <<me.serial, name.idx>>]},
        !.me.audioFiles = Append(@, name)]
      timed == [written EXCEPT
        !.me.currentDuration = @ + estimateAudioDuration(me.turn.words),
        !.me.estimates = Append(@, [words |-> me.turn.words,
                                    seconds |-> estimateAudioDuration(me.turn.words)])]
  IN IF me.id \notin w.dirs THEN CallFailed(w, "ENOENT: no such file or directory")
     ELSE IF me.phase = "opening"
     THEN IssueText(onProgress(timed, "generating"), "response")
     ELSE IF me.phase = "response"
     THEN contentLoop([timed EXCEPT !.me.turnIndex = 2,
                                    !.me.currentSpeakerIndex = 0,
                                    !.me.i = 0, !.me.j = 0], FALSE)
     ELSE IF me.phase = "content"
     THEN contentLoop([timed EXCEPT !.me.turnIndex = @ + 1,
                                    !.me.currentSpeakerIndex = @ + 1,
                                    !.me.j = @ + 1], TRUE)
     ELSE concatenateAudioFiles(onProgress(written, "finalizing"))

\* the turn index passed to synthesizeDialogueTurn for the closing turn
closingIndexReused(me) == me.turnIndex - 1
closingIndex(me) == me.turnIndex

\* a generated text has arrived: push the turn and synthesize it, or go on
afterText(w0, words) ==
  LET me == w0.me
      w == IF me.phase \in {"opening", "response", "content", "closing"}
           THEN [w0 EXCEPT !.me.authors = Append(@, speakerPersonality(me, author(me)))]
           ELSE w0
  IN
  IF me.phase = "opening" THEN IssueSpeech(w, Speaker(me, 1), 0, words)
  ELSE IF me.phase = "response" THEN IssueSpeech(w, Speaker(me, 2), 1, words)
  ELSE IF me.phase = "content"
  THEN IssueSpeech(w, Speaker(me, (me.currentSpeakerIndex % 2) + 1), me.turnIndex, words)
  ELSE IF me.phase = "closing" THEN IssueSpeech(w, closingSpeaker(me), closingIndex(me), words)
  ELSE IF me.phase = "title" THEN IssueText(w, "tags")
  ELSE \* tags: clean up (errors swallowed), report 'complete', return
       Return(onProgress(rmDir(w, me.id), "complete"),
              [success |-> TRUE, audioFile |-> File(me.id), audioUrl |-> Url(me.id),
               error |-> ""])

\* the merged file is written from the listed per-turn files; then the title
writeFinal(w) ==
  LET me == w.me
      data == [k \in 1..Len(me.existingFiles) |->
                 readTurn(w.files, me.id, me.existingFiles[k])]
  IN IssueText([w EXCEPT !.finals = {f \in @ : f.id # me.id}
                                    \cup {[id |-> me.id, data |-> data]},
                         !.produced = @ \cup {[body |-> me.body, id |-> me.id]},
                         !.me.concatOf = data], "title")

allReadable(w) ==
  \A k \in 1..Len(w.me.existingFiles) :
     existsTurn(w.files, w.me.id, w.me.existingFiles[k])

\* if (fs.existsSync(finalOutputPath)) return {success: true, ...}
cacheNever(fs, id) == FALSE
cacheHit(fs, id) == existsFinal(fs, id)

\* generateInvestigativeReport / generatePodcast up to the first await
Start(w0) ==
  LET id == RunId(w0.me.body)
      w == [w0 EXCEPT !.me.id = id]
  IN IF cacheHit(w.finals, id)
     THEN Return([w EXCEPT !.me.cached = TRUE],
                 [success |-> TRUE, audioFile |-> File(id), audioUrl |-> Url(id),
                  error |-> ""])
     ELSE IssueText(onProgress(onProgress(mkDir(w, id), "preparing"), "generating"),
                    "opening")

-----------------------------------------------------------------------------
(* The routes and the completions of the awaited calls                     *)

\* if (!documents || !Array.isArray(documents) || documents.length === 0)
validAlways(b) == TRUE
valid(b) == Len(Items(b)) > 0

\* POST /api/generate/investigative-report and /api/generate/podcast,
\* up to the first await of the generator
Post(r, bodies, limit) ==
  /\ run[r].pc \in {"idle", "done"}
  /\ \A q \in Slots : q < r => run[q].pc # "idle"   \* slots are taken in order
  /\ started < limit
  /\ \E b \in bodies :
       \* start(controller): setInterval, then the try block
       LET w == [World(r) EXCEPT !.me = [IdleRun EXCEPT !.body = b,
                                                       !.serial = started + 1,
                                                       !.prior = produced,
                                                       !.keepAlive = TRUE]]
       IN Commit(r, IF b.kind = "malformed"
                    THEN \* await request.json() throws: the route's catch
                         \* and finally
                         [finally(sendEvent(w, <<"error", "Unexpected end of JSON input">>))
                          EXCEPT !.me.pc = "done"]
                    ELSE IF ~valid(b)
                    THEN \* sendEvent; clearInterval; close; return; finally
                         [finally(close(clearInterval(
                            sendEvent(w, <<"error", IF b.kind = "report"
                                                    THEN "Documents are required"
                                                    ELSE "Articles are required">>))))
                          EXCEPT !.me.pc = "done"]
                    ELSE Start(sendEvent(w, <<IF b.kind = "report"
                                              THEN "generatingReport"
                                              ELSE "generatingPodcast", "start">>)))
  /\ started' = started + 1
  /\ UNCHANGED <<env, resp, elsewhere>>

\* the keep-alive interval fires while the handler awaits
KeepAlive(r) ==
  /\ run[r].keepAlive
  /\ run[r].pings < MaxPings
  /\ Commit(r, sendEvent([World(r) EXCEPT !.me.pings = @ + 1],
                         <<"ping", "Connection alive">>))
  /\ UNCHANGED <<env, started, resp, elsewhere>>

\* generateText: if (!response.ok) throw; if (!data.choices?.[0]?.message?.content) throw
textFailed(w, msg) == CallFailed([w EXCEPT !.me.extFailed = TRUE], msg)

\* synthesizeSpeech: if (!response.ok) throw; if (audioBuffer.byteLength === 0) throw
speechFailedAfterWrite(w, msg) ==
  CallFailed([w EXCEPT !.me.extFailed = TRUE,
                       !.files = @ \cup {[dir |-> w.me.id, idx |-> w.me.turn.idx,
                                          spk |-> w.me.turn.spk,
                                          tag |-> <<w.me.serial, w.me.turn.idx>>]}],
             msg)
speechFailed(w, msg) == CallFailed([w EXCEPT !.me.extFailed = TRUE], msg)

\* the chat-completion request of generateText completes
TextDone(r, wordCounts, failures) ==
  /\ run[r].pc = "text"
  /\ \E outcome \in {"ok"} \cup failures :
     \E words \in wordCounts :
       Commit(r, IF outcome = "ok"
                 THEN afterText([World(r) EXCEPT !.me.genReturned = @ + 1], words)
                 ELSE textFailed(World(r), outcome))
  /\ UNCHANGED <<env, started, resp, elsewhere>>

\* the text-to-speech request of synthesizeSpeech completes
SpeechDone(r, failures) ==
  /\ run[r].pc = "tts"
  /\ \E outcome \in {"ok"} \cup failures :
       Commit(r, IF outcome = "ok" THEN afterSpeech(World(r))
                 ELSE speechFailed(World(r), outcome))
  /\ UNCHANGED <<env, started, resp, elsewhere>>

\* the else branch of concatenateAudioFiles: the files are read and written
\* out as one buffer
concatenateSimpleFatal(w) == Fail(w, "ffmpeg is not available")
concatenateSimple(w) ==
  IF allReadable(w) THEN writeFinal([w EXCEPT !.me.strategy = "bytes"])
  ELSE Fail(w, "ENOENT: no such file or directory")

\* `ffmpeg -version` completes: concatenateWithFfmpeg up to its exec, or the
\* byte concatenation
FfmpegChecked(r) ==
  /\ run[r].pc = "ffcheck"
  /\ \E ffmpegAvailable \in BOOLEAN :
       Commit(r, IF ffmpegAvailable
                 THEN [World(r) EXCEPT !.lists = @ \cup {run[r].id},
                                       !.me.pc = "ffmpeg"]
                 ELSE concatenateSimple(World(r)))
  /\ UNCHANGED <<env, started, resp, elsewhere>>

\* the ffmpeg concat command completes; finally: the list file is unlinked
FfmpegDone(r) ==
  /\ run[r].pc = "ffmpeg"
  /\ \E exit0 \in BOOLEAN :
       LET w == [World(r) EXCEPT !.lists = @ \ {run[r].id}]
       IN Commit(r, IF exit0 /\ allReadable(w)
                    THEN writeFinal([w EXCEPT !.me.strategy = "ffmpeg"])
                    ELSE Fail([w EXCEPT !.me.extFailed = @ \/ ~exit0,
                                       !.me.ffmpegFailed = ~exit0],
                              "Command failed: ffmpeg"))
  /\ UNCHANGED <<env, started, resp, elsewhere>>

-----------------------------------------------------------------------------
(* The media route: GET /api/generate/media?id=<filename>                  *)

\* what the host holds outside the audio directory
OutsideDirs == { << >>, << <<"etc">> >>, cwd, cwd \o << <<"generated-audio", "-old">> >> }
OutsideFiles == { << <<"etc">>, <<"passwd">> >>,
                  cwd \o << <<"generated-audio", "-old">>, <<"x", ".mp3">> >> }

listPath(id) == AUDIO_DIR \o <<File(id) \o <<".txt">>>>

isDirectory(path) ==
  \/ path \in OutsideDirs
  \/ path = AUDIO_DIR
  \/ \E id \in tmpDirs : path = outputDir(id)

isFile(path) ==
  \/ path \in OutsideFiles
  \/ \E f \in finals : path = finalOutputPath(f.id)
  \/ \E id \in lists : path = listPath(id)
  \/ \E f \in tmpFiles :
       path = outputDir(f.dir) \o << <<"turn-", ToString(f.idx), f.spk, ".mp3">> >>

existsSync(path) == isDirectory(path) \/ isFile(path)

\* path.basename: the last non-empty segment of the id, "" when there is none
RECURSIVE basename(_)
basename(segs) ==
  IF Len(segs) = 0 THEN << << >> >>
  ELSE IF segs[Len(segs)] # << >> THEN <<segs[Len(segs)]>>
  ELSE basename(SubSeq(segs, 1, Len(segs) - 1))

\* path.join / path.resolve: "", "." and ".." segments are resolved
RECURSIVE normalize(_, _)
normalize(base, segs) ==
  IF Len(segs) = 0 THEN base
  ELSE IF Head(segs) \in { << >>, <<".">> } THEN normalize(base, Tail(segs))
  ELSE IF Head(segs) = <<"..">>
  THEN normalize(IF Len(base) = 0 THEN base ELSE SubSeq(base, 1, Len(base) - 1),
                 Tail(segs))
  ELSE normalize(Append(base, Head(segs)), Tail(segs))

isPrefix(a, b) == Len(a) <= Len(b) /\ SubSeq(b, 1, Len(a)) = a

\* resolvedPath.startsWith(resolvedAudioDir), a comparison of strings
startsWith(path, dir) ==
  /\ Len(path) >= Len(dir)
  /\ SubSeq(path, 1, Len(dir) - 1) = SubSeq(dir, 1, Len(dir) - 1)
  /\ isPrefix(dir[Len(dir)], path[Len(dir)])

NoResp == [asked |-> FALSE, id |-> << >>, status |-> 0, served |-> << >>]

\* the handler; a throw of readFileSync is not caught: the framework answers 500
GET(present, id) ==
  LET sanitizedId == basename(id)
      filePath == normalize(AUDIO_DIR, sanitizedId)
      answer(status, served) ==
        [asked |-> TRUE, id |-> IF present THEN id ELSE << >>,
         status |-> status, served |-> served]
  IN IF ~present \/ id = << << >> >> THEN answer(400, << >>)
     ELSE IF ~existsSync(filePath) THEN answer(404, << >>)
     ELSE IF ~startsWith(filePath, AUDIO_DIR) THEN answer(403, << >>)
     ELSE IF isDirectory(filePath) THEN answer(500, << >>)
     ELSE answer(200, filePath)

\* the ids a client may send: each a string split at "/"
IdParams ==
  { << << >> >>,                                        \* ""
    << <<".">> >>, << <<"..">> >>, << << >>, << >> >>,  \* ".", "..", "/"
    << <<"..">>, <<"..">>, <<"etc">>, <<"passwd">> >>,
    << <<"..">>, <<"generated-audio", "-old">>, <<"x", ".mp3">> >>,
    << <<"passwd">> >> }
  \cup { <<File(RunId(b))>> : b \in {run[r].body : r \in Slots} }
  \cup { <<RunId(b)>> : b \in {run[r].body : r \in Slots} }
  \cup { << <<"..">>, File(RunId(b)) >> : b \in {run[r].body : r \in Slots} }

MediaGet ==
  /\ \E present \in BOOLEAN : \E id \in IdParams : resp' = GET(present, id)
  /\ UNCHANGED <<run, finals, tmpDirs, tmpFiles, lists, env, started, produced>>
  /\ UNCHANGED elsewhere

-----------------------------------------------------------------------------
(* The sync route: POST /api/docs/documents/<id>/sync                      *)
(*                                                                         *)
(* A child row is [documentId, pageNumber, made]: `made` is the number of   *)
(* the request that created it (0: the import) and stands for its cuid.    *)
(* The metadata of the analyzer is, per child table, "absent" (the field   *)
(* is missing or not an array) or the sequence of the page numbers of its  *)
(* entries (0: an entry without pageNumber).  prisma.$transaction is one   *)
(* step: it commits all its writes or none.                                *)

MaxSyncs == 3

Absent == "absent"
Row(id, n, made) == [documentId |-> id, pageNumber |-> n, made |-> made]
NoMetadata == [pages |-> Absent, handwrittenNotes |-> Absent, stamps |-> Absent]
NoRows == [document |-> {}, page |-> {}, handwrittenNote |-> {}, documentStamp |-> {}]
NoSync == [served |-> 0, id |-> "", status |-> 0, metadata |-> NoMetadata]

DocIds == {"doc1", "doc2"}

\* what GET <analyzer>/api/documents/<id> may answer
Metadata ==
  [pages : {Absent, << >>, <<1>>, <<1, 2>>, <<0>>, <<1, 1>>},
   handwrittenNotes : {Absent, << >>, <<1>>},
   stamps : {Absent, << >>, <<2>>}]

\* tx.<table>.deleteMany({ where: { documentId: id } })
deleteMany(rows, id) == {row \in rows : row.documentId # id}

\* for (const page of metadata.pages) tx.page.create(...): pageNumber is
\* page.pageNumber || 1
createPages(rows, id, entries, made) ==
  rows \cup {Row(id, IF entries[k] = 0 THEN 1 ELSE entries[k], made) :
               k \in 1..Len(entries)}

\* for (const e of entries) tx.<table>.create(...)
createRows(rows, id, entries, made) ==
  rows \cup {Row(id, entries[k], made) : k \in 1..Len(entries)}

\* @@unique([documentId, pageNumber]) of Page: a second create with the same
\* page number throws and the transaction rolls back
uniquePages(entries) ==
  \A k, l \in 1..Len(entries) :
     (IF entries[k] = 0 THEN 1 ELSE entries[k])
       = (IF entries[l] = 0 THEN 1 ELSE entries[l]) => k = l

\* if (metadata.<field> && Array.isArray(metadata.<field>)) { deleteMany; create... }
replaceIfArray(field) == field # Absent

\* the body of prisma.$transaction
transaction(d, id, metadata, made) ==
  [d EXCEPT
     !.page = IF replaceIfArray(metadata.pages)
              THEN createPages(deleteMany(@, id), id, metadata.pages, made)
              ELSE @,
     !.handwrittenNote =
              IF replaceIfArray(metadata.handwrittenNotes)
              THEN createRows(deleteMany(@, id), id, metadata.handwrittenNotes, made)
              ELSE @,
     !.documentStamp =
              IF replaceIfArray(metadata.stamps)
              THEN createRows(deleteMany(@, id), id, metadata.stamps, made)
              ELSE @]

\* the handler
SyncPost ==
  /\ sync.served < MaxSyncs
  /\ \E id \in DocIds : \E analyzer \in {200, 404, 503} : \E metadata \in Metadata :
       LET made == sync.served + 1
           answer(status) == [served |-> made, id |-> id, status |-> status,
                              metadata |-> IF analyzer = 200 THEN metadata
                                           ELSE NoMetadata]
       IN IF analyzer # 200
          THEN \* !response.ok: the analyzer's status is passed on
               sync' = answer(analyzer) /\ db' = db
          ELSE IF id \notin db.document
          THEN sync' = answer(404) /\ db' = db
          ELSE IF metadata.pages # Absent /\ ~uniquePages(metadata.pages)
          THEN \* the transaction throws: the catch answers 500
               sync' = answer(500) /\ db' = db
          ELSE sync' = answer(200) /\ db' = transaction(db, id, metadata, made)
  /\ UNCHANGED <<audioState, grouped, dialog, ctx>>

-----------------------------------------------------------------------------
(* The create-collection dialog: handleSubmit, pollJobStatus, resetForm    *)
(* and the cleanup of the unmount effect.                                  *)
(*                                                                         *)
(* A timer is [id, job]; `timers` are the timeouts that are pending,       *)
(* pollingTimeoutRef the id the ref holds (0: null).  An action is the     *)
(* code of one callback between two awaits.                                *)

MaxJobs == 2
MaxPolls == 4

MountedDialog ==
  [mounted |-> TRUE, isSubmitting |-> FALSE, jobStatus |-> "null",
   posting |-> FALSE,        \* the POST of handleSubmit is in flight
   jobs |-> 0,               \* job ids handed out by the analyzer
   inflight |-> {},          \* jobs with a status request in flight
   timers |-> {}, pollingTimeoutRef |-> 0, timeouts |-> 0,
   polls |-> 0,              \* status requests issued
   \* history: jobs whose polling was cancelled or has finished, and whether
   \* a status request was issued for one of them afterwards
   stopped |-> {}, late |-> FALSE]

NoDialog == [MountedDialog EXCEPT !.mounted = FALSE]

\* setState of an unmounted component does nothing
setIsSubmitting(d, v) == IF d.mounted THEN [d EXCEPT !.isSubmitting = v] ELSE d
setJobStatus(d, v) == IF d.mounted THEN [d EXCEPT !.jobStatus = v] ELSE d

\* pollJobStatus(jobId) up to its fetch
pollJobStatus(d, job) ==
  [d EXCEPT !.inflight = @ \cup {job}, !.polls = @ + 1,
            !.late = @ \/ job \in d.stopped]

\* pollingTimeoutRef.current = setTimeout(() => pollJobStatus(jobId), ...)
setTimeout(d, job) ==
  [d EXCEPT !.timeouts = @ + 1,
            !.timers = @ \cup {[id |-> d.timeouts + 1, job |-> job]},
            !.pollingTimeoutRef = d.timeouts + 1]

\* if (pollingTimeoutRef.current) { clearTimeout(...); ...current = null }
clearPolling(d) ==
  IF d.pollingTimeoutRef # 0
  THEN [d EXCEPT !.timers = {t \in @ : t.id # d.pollingTimeoutRef},
                 !.pollingTimeoutRef = 0]
  ELSE d

\* the jobs that are being polled: a request in flight or a timeout pending
Polled(d) == d.inflight \cup {t.job : t \in d.timers}

Aside == <<audioState, db, sync, grouped, ctx>>

\* handleSubmit up to its fetch (the button is there unless the job is complete)
Submit ==
  /\ dialog.mounted /\ ~dialog.isSubmitting /\ dialog.jobStatus # "complete"
  /\ ~dialog.posting
  /\ dialog.jobs < MaxJobs
  /\ dialog' = [setJobStatus(setIsSubmitting(dialog, TRUE), "null")
                EXCEPT !.posting = TRUE]
  /\ UNCHANGED Aside

\* the POST of handleSubmit completes
SubmitDone ==
  /\ dialog.posting
  /\ \E ok \in BOOLEAN :
       LET d == [dialog EXCEPT !.posting = FALSE]
       IN dialog' = IF ok
                    THEN pollJobStatus(setJobStatus([d EXCEPT !.jobs = @ + 1], "started"),
                                       d.jobs + 1)
                    ELSE setIsSubmitting(d, FALSE)
  /\ UNCHANGED Aside

\* a status request completes
PollDone ==
  /\ \E job \in dialog.inflight :
     \E status \in {"complete", "error", "failed", "processing", "throws"} :
       LET d == [dialog EXCEPT !.inflight = @ \ {job}]
       IN dialog' =
            IF status = "complete"
            THEN [setIsSubmitting(setJobStatus(d, "complete"), FALSE)
                  EXCEPT !.stopped = @ \cup {job}]
            ELSE IF status \in {"error", "failed"}
            THEN [setIsSubmitting(d, FALSE) EXCEPT !.stopped = @ \cup {job}]
            ELSE IF status = "processing"
            THEN setTimeout(setJobStatus(d, "processing"), job)
            ELSE setTimeout(d, job)
  /\ UNCHANGED Aside

\* a pending timeout fires: pollJobStatus(jobId)
TimerFires ==
  /\ dialog.polls < MaxPolls
  /\ \E t \in dialog.timers :
       dialog' = pollJobStatus([dialog EXCEPT !.timers = @ \ {t}], t.job)
  /\ UNCHANGED Aside

\* the component unmounts: the cleanup of the effect
Unmount ==
  /\ dialog.mounted
  /\ dialog' = [clearPolling(dialog) EXCEPT !.mounted = FALSE,
                                            !.stopped = @ \cup Polled(dialog)]
  /\ UNCHANGED Aside

\* handleClose: if (!isSubmitting) { resetForm(); onOpenChange(false) }
HandleClose ==
  /\ dialog.mounted /\ ~dialog.isSubmitting
  /\ dialog' = [setJobStatus(clearPolling(dialog), "null")
                EXCEPT !.stopped = @ \cup Polled(dialog)]
  /\ UNCHANGED Aside

-----------------------------------------------------------------------------
(* DocumentGroupProvider: enabledGroups and availableGroups, the functions *)
(* of the context and fetchGroups.                                         *)
(*                                                                         *)
(* The functions handed out by the provider are closures of its last       *)
(* render: they read the state as it was then (`rendered`), while the      *)
(* updaters passed to setEnabledGroups and setAvailableGroups run on the   *)
(* pending state.                                                          *)

MaxCalls == 4

GroupIds == {"jfk", "rfk", "mlk"}

Range(seq) == {seq[k] : k \in 1..Len(seq)}
includes(seq, x) == x \in Range(seq)

\* Array.from(new Set(seq)): the first occurrence of each element, in order
RECURSIVE Distinct(_)
Distinct(seq) ==
  IF Len(seq) = 0 THEN << >>
  ELSE LET front == Distinct(SubSeq(seq, 1, Len(seq) - 1))
       IN IF includes(front, seq[Len(seq)]) THEN front
          ELSE Append(front, seq[Len(seq)])

ProviderWith(enabled, available) ==
  [enabledGroups |-> enabled, availableGroups |-> available,
   rendered |-> [enabledGroups |-> enabled, availableGroups |-> available],
   fetching |-> 0,          \* requests of fetchGroups in flight
   calls |-> 0,
   \* history: the last call and the enabled groups before it
   last |-> [op |-> "none", group |-> "", before |-> << >>]]

NoCtx == ProviderWith(<< >>, << >>)

\* the updater of toggleGroup
toggled(prevGroups, group) ==
  IF includes(prevGroups, group)
  THEN IF Len(prevGroups) = 1 THEN prevGroups
       ELSE SelectSeq(prevGroups, LAMBDA g : g # group)
  ELSE Append(prevGroups, group)

Apart == <<audioState, db, sync, grouped, dialog>>

Called(c, op, group) ==
  [c EXCEPT !.calls = @ + 1,
            !.last = [op |-> op, group |-> group, before |-> c.enabledGroups]]

toggleGroup ==
  /\ ctx.calls < MaxCalls
  /\ \E group \in GroupIds :
       ctx' = [Called(ctx, "toggleGroup", group)
               EXCEPT !.enabledGroups = toggled(@, group)]
  /\ UNCHANGED Apart

addDocumentGroup ==
  /\ ctx.calls < MaxCalls
  /\ \E group \in GroupIds :
       LET c == Called(ctx, "addDocumentGroup", group)
       IN ctx' = IF ~includes(ctx.rendered.availableGroups, group)
                 THEN [c EXCEPT !.availableGroups = Append(@, group),
                                !.enabledGroups =
                                   IF ~includes(ctx.rendered.enabledGroups, group)
                                   THEN Append(@, group) ELSE @]
                 ELSE c
  /\ UNCHANGED Apart

\* the provider renders again: its functions now close over the new state
Render ==
  /\ ctx.rendered # [enabledGroups |-> ctx.enabledGroups,
                     availableGroups |-> ctx.availableGroups]
  /\ ctx' = [ctx EXCEPT !.rendered = [enabledGroups |-> ctx.enabledGroups,
                                      availableGroups |-> ctx.availableGroups],
                        !.last = [op |-> "render", group |-> "",
                                  before |-> ctx.enabledGroups]]
  /\ UNCHANGED Apart

\* refreshGroups: fetchGroups up to its fetch
refreshGroups ==
  /\ ctx.calls < MaxCalls
  /\ ctx' = [Called(ctx, "refreshGroups", "") EXCEPT !.fetching = @ + 1]
  /\ UNCHANGED Apart

\* what GET /api/docs/document-groups may answer: the ids of the groups, each
\* once, or no list
Answers == {<<"none">>, << >>, <<"jfk">>, <<"rfk">>, <<"jfk", "rfk">>,
            <<"rfk", "mlk", "jfk">>}

\* the fetch of fetchGroups completes
GroupsFetched ==
  /\ ctx.fetching > 0
  /\ \E newGroups \in Answers :
       LET c == [ctx EXCEPT !.fetching = @ - 1,
                            !.last = [op |-> "fetched", group |-> "",
                                      before |-> ctx.enabledGroups]]
           newlyDiscovered == SelectSeq(newGroups,
                                LAMBDA g : ~includes(ctx.enabledGroups, g))
       IN ctx' = IF newGroups = <<"none">> THEN c
                 ELSE [c EXCEPT
                         !.availableGroups = Distinct(@ \o newGroups),
                         !.enabledGroups =
                            IF Len(@) = 0 THEN newGroups
                            ELSE IF Len(newlyDiscovered) > 0
                            THEN @ \o newlyDiscovered
                            ELSE @]
  /\ UNCHANGED Apart

-----------------------------------------------------------------------------
(* groupRelatedDocuments applied to a list of documents                    *)

NoGrouping == [documents |-> << >>, applied |-> FALSE,
               relatedGroups |-> << >>, unrelated |-> << >>]

GroupDocuments ==
  /\ ~grouped.applied
  /\ LET out == groupRelatedDocuments(grouped.documents)
     IN grouped' = [documents |-> grouped.documents, applied |-> TRUE,
                    relatedGroups |-> out.relatedGroups,
                    unrelated |-> out.unrelated]
  /\ UNCHANGED <<audioState, db, sync, dialog, ctx>>

-----------------------------------------------------------------------------
(* Specifications                                                          *)

AudioInit(envs) ==
  /\ run = [r \in Slots |-> IdleRun]
  /\ finals = {}
  /\ tmpDirs = {}
  /\ tmpFiles = {}
  /\ lists = {}
  /\ env \in envs
  /\ started = 0
  /\ produced = {}
  /\ resp = NoResp

InitWith(envs) ==
  /\ AudioInit(envs)
  /\ db = NoRows
  /\ sync = NoSync
  /\ grouped = NoGrouping
  /\ dialog = NoDialog
  /\ ctx = NoCtx

Envs == [xai : BOOLEAN, eleven : BOOLEAN, rmOk : {TRUE}]

Bodies ==
  { Body("report", <<d1, d2>>, << >>, "I1", <<"reporter", "privateEye">>, 3),
    Body("report", <<d1, d2>>, << >>, "I1", <<"privateEye", "reporter">>, 3),
    Body("report", <<d1, d2>>, << >>, "I2", <<"reporter", "privateEye">>, 3),
    Body("report", << >>, << >>, "I1", <<"reporter", "privateEye">>, 3),
    Body("podcast", << >>, <<a1>>, "", <<"host1", "host2">>, 3),
    Body("podcast", << >>, <<a1>>, "", <<"host2", "host1">>, 3),
    Body("podcast", << >>, << >>, "", <<"host1", "host2">>, 3) }

Words == {2}

\* what generateText and synthesizeSpeech throw after their request was sent
TextFailures == {"Grok API error", "Invalid response from Grok API"}
SpeechFailures == {"ElevenLabs API error", "ElevenLabs returned empty audio buffer"}

Init == InitWith(Envs)

Next ==
  \E r \in Slots :
    \/ Post(r, Bodies, MaxStarts)
    \/ TextDone(r, Words, {"Grok API error"})
    \/ SpeechDone(r, {"ElevenLabs API error"})
    \/ FfmpegChecked(r)
    \/ FfmpegDone(r)

Spec == Init /\ [][Next]_vars

\* One run at a time, with the target lengths of real requests, texts of
\* one word and of 120 words, and every failure of the two services.
Scenario == Body("report", <<d1, d2>>, << >>, "I1", <<"reporter", "privateEye">>, 120)

SoloBodies ==
  { Scenario,
    Body("podcast", << >>, <<a1>>, "", <<"host1", "host2">>, 60),
    Body("podcast", << >>, <<a1moved>>, "", <<"host1", "host2">>, 60),
    Body("podcast", << >>, <<a1>>, "", <<"host2", "host1">>, 0),
    Body("report", <<d1, d2>>, << >>, "I2", <<"reporter", "privateEye">>, -1),
    Body("malformed", << >>, << >>, "", << >>, 0) }

\* the removal of the per-turn directory may fail (and is then only logged)
SoloEnvs == [xai : BOOLEAN, eleven : BOOLEAN, rmOk : BOOLEAN]

InitSolo == InitWith(SoloEnvs)

SoloWords == {1, 120}

NextSolo ==
  \/ Post(1, SoloBodies, MaxSoloStarts)
  \/ TextDone(1, SoloWords, TextFailures)
  \/ SpeechDone(1, SpeechFailures)
  \/ FfmpegChecked(1)
  \/ FfmpegDone(1)

SpecSolo == InitSolo /\ [][NextSolo]_vars

\* One run at a time over many documents: ManyGroups pairs of documents,
\* the two of a pair sharing a place, with a target far away and short texts.
ManyDocs ==
  [k \in 1..(2 * ManyGroups) |-> Doc(ToString(k), "", {ToString((k + 1) \div 2)})]

LongBodies ==
  { Body("report", ManyDocs, << >>, "I1", <<"reporter", "privateEye">>, 6000),
    Body("podcast", << >>, <<a1>>, "", <<"host1", "host2">>, 6000) }

NextLong ==
  \/ Post(1, LongBodies, MaxSoloStarts)
  \/ TextDone(1, {1}, {"Grok API error"})
  \/ SpeechDone(1, {"ElevenLabs API error"})
  \/ FfmpegChecked(1)
  \/ FfmpegDone(1)

SpecLong == Init /\ [][NextLong]_vars

\* One run at a time, and requests to the media route at any moment.
NextMedia ==
  \/ Post(1, Bodies, MaxStarts)
  \/ TextDone(1, Words, {"Grok API error"})
  \/ SpeechDone(1, {"ElevenLabs API error"})
  \/ FfmpegChecked(1)
  \/ FfmpegDone(1)
  \/ MediaGet

SpecMedia == Init /\ [][NextMedia]_vars

\* One request at a time, short texts, and the keep-alive interval firing at
\* any await.
StreamBodies ==
  { Body("report", <<d1, d2>>, << >>, "I1", <<"reporter", "privateEye">>, 3),
    Body("report", << >>, << >>, "I1", <<"reporter", "privateEye">>, 3),
    Body("podcast", << >>, <<a1>>, "", <<"host1", "host2">>, 3),
    Body("podcast", << >>, << >>, "", <<"host1", "host2">>, 3),
    Body("malformed", << >>, << >>, "", << >>, 0) }

NextStream ==
  \/ Post(1, StreamBodies, MaxSoloStarts)
  \/ TextDone(1, Words, {"Grok API error"})
  \/ SpeechDone(1, {"ElevenLabs API error"})
  \/ FfmpegChecked(1)
  \/ FfmpegDone(1)
  \/ KeepAlive(1)

SpecStream == Init /\ [][NextStream]_vars

\* One request at a time with every pair of participant keys, known or not.
Keys == {"reporter", "privateEye", "host1", "host2", "analyst"}

CastBodies ==
  { Body("report", <<d1, d2>>, << >>, "I1", <<k1, k2>>, 3) : k1, k2 \in Keys }
  \cup { Body("podcast", << >>, <<a1>>, "", <<k1, k2>>, 3) : k1, k2 \in Keys }
  \cup { Body("podcast", << >>, <<a1>>, "", <<"host2">>, 3) }

NextCast ==
  \/ Post(1, CastBodies, MaxSoloStarts)
  \/ TextDone(1, Words, {"Grok API error"})
  \/ SpeechDone(1, {"ElevenLabs API error"})
  \/ FfmpegChecked(1)
  \/ FfmpegDone(1)

SpecCast == Init /\ [][NextCast]_vars

\* The sync route alone, on a database into which the import has put one
\* document with any of its child rows.
Imported ==
  [document : {{"doc1"}},
   page : SUBSET {Row("doc1", 1, 0), Row("doc1", 3, 0)},
   handwrittenNote : SUBSET {Row("doc1", 1, 0)},
   documentStamp : SUBSET {Row("doc1", 1, 0)}]

AllSet == {[xai |-> TRUE, eleven |-> TRUE, rmOk |-> TRUE]}

InitSync ==
  /\ AudioInit(AllSet)
  /\ db \in Imported
  /\ sync = NoSync
  /\ grouped = NoGrouping
  /\ dialog = NoDialog
  /\ ctx = NoCtx

NextSync == SyncPost

SpecSync == InitSync /\ [][NextSync]_vars

\* groupRelatedDocuments on every list of up to MaxDocs documents out of
\* four: two that share a place, one that shares a name with the first, one
\* that shares nothing; a repeated documentId and a document without one.
MaxDocs == 3

Pool ==
  { d1, d2,
    [documentId |-> "d3", url |-> "", names |-> {"Oswald"}, places |-> {}, dates |-> {}],
    [documentId |-> "d4", url |-> "", names |-> {}, places |-> {"Miami"}, dates |-> {"1963"}],
    [documentId |-> "d1", url |-> "", names |-> {"Oswald"}, places |-> {"Dallas"}, dates |-> {}],
    [documentId |-> "", url |-> "u5", names |-> {}, places |-> {"Dallas"}, dates |-> {}] }

Lists == UNION {[1..n -> Pool] : n \in 0..MaxDocs}

InitGroup ==
  /\ AudioInit(AllSet)
  /\ db = NoRows
  /\ sync = NoSync
  /\ grouped \in {[NoGrouping EXCEPT !.documents = l] : l \in Lists}
  /\ dialog = NoDialog
  /\ ctx = NoCtx

NextGroup == GroupDocuments

\* The dialog alone, mounted, with up to MaxJobs jobs and MaxPolls status
\* requests.
InitDialog ==
  /\ AudioInit(AllSet)
  /\ db = NoRows
  /\ sync = NoSync
  /\ grouped = NoGrouping
  /\ dialog = MountedDialog
  /\ ctx = NoCtx

NextDialog ==
  \/ Submit
  \/ SubmitDone
  \/ PollDone
  \/ TimerFires
  \/ Unmount
  \/ HandleClose

SpecDialog == InitDialog /\ [][NextDialog]_vars

\* The provider alone, after its first render with one or two groups
\* enabled, and up to MaxCalls calls of its functions.
InitProvider ==
  /\ AudioInit(AllSet)
  /\ db = NoRows
  /\ sync = NoSync
  /\ grouped = NoGrouping
  /\ dialog = NoDialog
  /\ ctx \in {ProviderWith(<<"jfk">>, <<"jfk">>),
               ProviderWith(<<"jfk", "rfk">>, <<"jfk", "rfk">>)}

NextProvider ==
  \/ toggleGroup
  \/ addDocumentGroup
  \/ refreshGroups
  \/ GroupsFetched
  \/ Render

SpecProvider == InitProvider /\ [][NextProvider]_vars

SpecGroup == InitGroup /\ [][NextGroup]_vars

-----------------------------------------------------------------------------
(* Properties of concurrent runs (specification Spec)                      *)

Running(r) == run[r].pc \notin {"idle", "done"}
Calls(r) == run[r].genCalls + run[r].ttsCalls
Identifiers(b) ==
  IF b.kind = "report" THEN [k \in 1..Len(b.documents) |-> b.documents[k].documentId]
  ELSE [k \in 1..Len(b.articles) |-> b.articles[k].id]
CacheKeys(b) ==
  IF b.kind = "report" THEN [k \in 1..Len(b.documents) |-> DocKey(b.documents[k])]
  ELSE [k \in 1..Len(b.articles) |-> ArticleKey(b.articles[k])]
ServedFromCache(r, id) ==
  /\ run[r].pc = "done"
  /\ run[r].result.success
  /\ run[r].result.audioFile = File(id)
  /\ run[r].result.audioUrl = Url(id)
  /\ Calls(r) = 0

C2_PersonasInIdentifier ==
  \A r1, r2 \in Slots :
    (/\ run[r1].id # << >> /\ run[r2].id # << >>
     /\ run[r1].body.kind = run[r2].body.kind
     /\ Items(run[r1].body) = Items(run[r2].body)
     /\ run[r1].body.people # run[r2].body.people)
    => run[r1].id # run[r2].id

\* C3: two runs with different inputs that execute concurrently never use the
\* same per-turn directory nor the same final output path.
C3_DifferentInputsDisjointPaths ==
  \A r1, r2 \in Slots :
    (Running(r1) /\ Running(r2) /\ run[r1].body # run[r2].body)
    => /\ outputDir(run[r1].id) # outputDir(run[r2].id)
       /\ finalOutputPath(run[r1].id) # finalOutputPath(run[r2].id)

AllTurns(r) == [k \in 1..Len(run[r].dialogue) |-> run[r].dialogue[k].text]

\* C4: when two runs for the identical input have both returned and no
\* external call failed, both returned success and the final file holds the
\* audio of every turn of one of them, in turn order.
C4_DuplicateRunIdempotent ==
  \A r1, r2 \in Slots :
    (/\ r1 # r2
     /\ run[r1].pc = "done" /\ run[r2].pc = "done"
     /\ run[r1].body = run[r2].body /\ valid(run[r1].body)
     /\ ~run[r1].cached /\ ~run[r2].cached
     /\ env.xai /\ env.eleven
     /\ ~run[r1].extFailed /\ ~run[r2].extFailed)
    => /\ run[r1].result.success /\ run[r2].result.success
       /\ \E f \in finals : /\ f.id = run[r1].id
                            /\ f.data \in {AllTurns(r1), AllTurns(r2)}

\* C6: a request with zero documents or zero articles ends with the
\* validation error and without any text-generation or speech-synthesis call.
C6_EmptyInputFailsFast ==
  \A r \in Slots :
    (run[r].pc # "idle" /\ Len(Items(run[r].body)) = 0)
    => /\ run[r].pc = "done"
       /\ Calls(r) = 0
       /\ ~run[r].result.success
       /\ Len(run[r].events) = 1
       /\ run[r].events[1][1] = "error"
       /\ run[r].events[1][2] \in {"Documents are required", "Articles are required"}

C6_Witness ==
  \E r1, r2 \in Slots :
    /\ run[r1].pc = "done" /\ run[r1].body.kind = "report"
    /\ Len(run[r1].body.documents) = 0
    /\ run[r2].pc = "done" /\ run[r2].body.kind = "podcast"
    /\ Len(run[r2].body.articles) = 0

\* C9: a run that found a per-turn file missing when concatenation started,
\* or whose ffmpeg exited non-zero, returns success = false and writes no
\* merged file.
C9_ConcatFailureNoPartialOutput ==
  \A r \in Slots :
    (run[r].missingAtConcat \/ run[r].ffmpegFailed)
    => /\ run[r].concatOf = << >>
       /\ run[r].pc = "done" => ~run[r].result.success

-----------------------------------------------------------------------------
(* Properties of a single run (specification SpecSolo)                     *)


\* C5: in a podcast run (target 60) a content turn is only ever produced
\* with a turn index of at most 20, however small the estimates of the turns
\* are; with the opening, the response and the closing the run has at most
\* 22 turns.
C5_ContentLoopCapped ==
  \A r \in Slots :
    run[r].body.kind = "podcast" /\ run[r].body.target = 60 =>
      /\ run[r].phase = "content" => run[r].turnIndex <= TurnCap
      /\ \A k \in 1..Len(run[r].dialogue) : run[r].dialogue[k].text[2] <= TurnCap + 1
      /\ run[r].phase = "content" => Len(run[r].dialogue) <= TurnCap + 1
      /\ Len(run[r].dialogue) <= TurnCap + 2

\* the loop was left at the cap while the estimate was still below 45 s
C5_Witness ==
  \E r \in Slots :
    /\ run[r].body.kind = "podcast" /\ run[r].body.target = 60
    /\ run[r].phase = "closing"
    /\ run[r].turnIndex = TurnCap + 1
    /\ belowThreshold(run[r])
    /\ run[r].currentDuration = TurnCap + 1

AllCallsSucceeded(r) ==
  /\ run[r].pc = "done"
  /\ ~run[r].cached
  /\ run[r].failMsg = ""
  /\ ~run[r].extFailed

Speakers(r) == [k \in 1..Len(run[r].dialogue) |-> run[r].dialogue[k].speaker]

\* C8 as stated: the scenario run (two documents sharing a place, reporter
\* and privateEye, target 120) with every external call succeeding begins
\* and ends with the reporter, has at least 4 turns and returns success with
\* the audioUrl, whatever the lengths of the texts.
C8_ScenarioAtLeastFourTurns ==
  \A r \in Slots :
    run[r].body = Scenario /\ AllCallsSucceeded(r) =>
      /\ Speakers(r)[1] = "reporter"
      /\ Speakers(r)[Len(Speakers(r))] = "reporter"
      /\ Len(Speakers(r)) >= 4
      /\ run[r].result.success
      /\ run[r].result.audioUrl = Url(run[r].id)

\* C8 amended: ... has at least 3 turns, and at least 4 unless the opening
\* and the response are together estimated at 96 s (0.8 * 120) or more.
C8_ScenarioTurns ==
  \A r \in Slots :
    run[r].body = Scenario /\ AllCallsSucceeded(r) =>
      /\ Speakers(r)[1] = "reporter"
      /\ Speakers(r)[Len(Speakers(r))] = "reporter"
      /\ Len(Speakers(r)) >= 3
      /\ Len(Speakers(r)) = 3 => 5 * run[r].currentDuration >= 4 * 120
      /\ run[r].result.success
      /\ run[r].result.audioUrl = Url(run[r].id)

C8_Witness ==
  \E r \in Slots :
    /\ run[r].body = Scenario /\ AllCallsSucceeded(r)
    /\ Speakers(r) = <<"reporter", "privateEye", "reporter", "privateEye", "reporter">>
    /\ run[r].result.success

\* C10: once a text-generation or speech-synthesis call of a run has failed,
\* the run makes no further such call, is over, and has returned
\* success = false with the message of that failure as its error.
C10_FailStop ==
  \A r \in Slots :
    run[r].failMsg # "" =>
      /\ Calls(r) = run[r].callsAtFail
      /\ run[r].pc = "done"
      /\ ~run[r].result.success
      /\ run[r].result.error = run[r].failMsg

\* a speech request fails in the middle of a run
C10_Witness ==
  \E r \in Slots :
    /\ run[r].failMsg = "ElevenLabs returned empty audio buffer"
    /\ run[r].extFailed
    /\ Len(run[r].dialogue) >= 3
    /\ ~run[r].result.success

-----------------------------------------------------------------------------
(* Properties of the media route (specification SpecMedia)                 *)

InsideAudioDir(path) == Len(path) = Len(AUDIO_DIR) + 1 /\ SubSeq(path, 1, Len(AUDIO_DIR)) = AUDIO_DIR

\* C7: for every (non-empty) value of id the answer is 403 or 404, unless
\* the id names a file inside the audio directory, and then it is 200; a
\* 200 answer carries a file inside the audio directory.
C7_MediaAnswers ==
  resp.asked /\ resp.id \notin {<< >>, << << >> >>} =>
    \/ resp.status \in {403, 404}
    \/ /\ resp.status = 200
       /\ InsideAudioDir(resp.served)
       /\ resp.served = normalize(AUDIO_DIR, <<resp.id[Len(resp.id)]>>)

\* the half of C7 that holds: a 200 answer carries a file of the audio directory
MediaServesOnlyAudioDir ==
  resp.status = 200 => InsideAudioDir(resp.served)

-----------------------------------------------------------------------------
(* Cleanup, concatenation, events and progress of a run (SpecSolo)         *)

Returned(r) == run[r].pc = "done" /\ run[r].madeDir

\* C11: when a run that created its per-turn directory has returned, with
\* success or with an error, the directory and its files are gone unless the
\* removal failed; and a failed removal leaves the result what it would be:
\* the error of the failed step, or success.
C11_TempDirRemovedAtReturn ==
  \A r \in Slots :
    Returned(r) =>
      /\ ~run[r].rmFailed =>
           /\ run[r].id \notin tmpDirs
           /\ \A f \in tmpFiles : f.dir # run[r].id
      /\ run[r].failMsg # "" =>
           ~run[r].result.success /\ run[r].result.error = run[r].failMsg
      /\ run[r].ffmpegFailed => ~run[r].result.success
      /\ run[r].failMsg = "" /\ ~run[r].ffmpegFailed => run[r].result.success

\* a run that fails after several turns, and whose directory is removed
C11_Witness ==
  \E r \in Slots :
    /\ Returned(r) /\ ~run[r].rmFailed
    /\ run[r].failMsg = "Grok API error"
    /\ Len(run[r].audioFiles) >= 2
    /\ run[r].id \notin tmpDirs

FinalOf(r) == {f \in finals : f.id = run[r].id}

\* C12: when the availability check has succeeded the ffmpeg strategy is
\* under way and no merged file has been written by the run before it; when
\* the check fails, the same step writes the per-turn files, in turn order,
\* as the merged file without any event to the client, and a run that
\* downgraded this way and whose later calls succeed returns success with
\* that non-empty file in place.
C12_FfmpegDowngrade ==
  /\ [](\A r \in Slots : run[r].pc = "ffmpeg" =>
          run[r].id \in lists /\ run[r].concatOf = << >>)
  /\ [][\A r \in Slots :
          run[r].pc = "ffcheck" /\ run'[r].pc # "ffcheck" =>
            \/ run'[r].pc = "ffmpeg"
            \/ /\ run'[r].strategy = "bytes"
               /\ run'[r].pc = "text" /\ run'[r].phase = "title"
               /\ run'[r].events = run[r].events
               /\ Len(run'[r].concatOf) = Len(run[r].dialogue)
               /\ run'[r].concatOf = AllTurns(r)
               /\ [id |-> run[r].id, data |-> AllTurns(r)] \in finals']_vars
  /\ [][\A r \in Slots :
          run[r].strategy = "bytes" /\ run'[r].pc = "done"
          /\ run'[r].failMsg = "" =>
            /\ run'[r].result.success
            /\ run'[r].result.audioFile = File(run[r].id)
            /\ \E f \in finals' : f.id = run[r].id /\ Len(f.data) > 0]_vars

\* the merged file of a run was written by byte concatenation
C12_Witness ==
  \E r \in Slots :
    /\ run[r].strategy = "bytes" /\ run[r].phase = "tags"
    /\ Len(run[r].concatOf) >= 4
    /\ FinalOf(r) # {}

Terminal(ev) == ev[1] \in {"reportComplete", "podcastComplete", "error"}

IsProgress(ev) == ev[1] \in {"investigationUpdate", "progress"}
Statuses(r) ==
  LET p == SelectSeq(run[r].events, IsProgress)
  IN [k \in 1..Len(p) |-> p[k][2]]

\* the step of the run a progress status belongs to
Rank(status) ==
  CASE status = "preparing" -> 1
    [] status \in {"generating", "analyzing"} -> 2   \* opening, responding, content loop
    [] status = "concluding" -> 3                    \* closing
    [] status = "finalizing" -> 4                    \* concatenating
    [] status = "complete" -> 5
    [] OTHER -> 0

\* C15: the progress statuses of a run are reported in the order of its
\* steps (preparing; generating/analyzing for the opening, the response and
\* the content loop; concluding; finalizing; complete), each of preparing,
\* concluding, finalizing and complete at most once; 'complete' is reported
\* only when the merged file is written and the title and the tags have
\* been returned, and it is followed by nothing but the terminal event; a
\* run that failed ends its stream with the error event.
C15_ProgressOrder ==
  \A r \in Slots :
    LET st == Statuses(r)
        ev == run[r].events
    IN /\ \A k \in 1..Len(st) : Rank(st[k]) >= 1
       /\ \A k \in 1..(Len(st) - 1) :
            /\ Rank(st[k]) <= Rank(st[k + 1])
            /\ Rank(st[k]) = Rank(st[k + 1]) => Rank(st[k]) = 2
       /\ Len(st) >= 1 => st[1] = "preparing"
       /\ \A k \in 1..Len(ev) :
            IsProgress(ev[k]) /\ ev[k][2] = "complete" =>
              /\ run[r].concatOf # << >>
              /\ run[r].genReturned = Len(run[r].dialogue) + 2
              /\ k = Len(ev) - 1
              /\ ev[Len(ev)][1] \in {"reportComplete", "podcastComplete"}
       /\ run[r].pc = "done" /\ ~run[r].result.success =>
            ev[Len(ev)][1] = "error"

\* a report that went through all its steps
C15_Witness ==
  \E r \in Slots :
    /\ run[r].pc = "done" /\ run[r].result.success
    /\ Statuses(r) = <<"preparing", "generating", "generating", "analyzing",
                       "concluding", "finalizing", "complete">>

RECURSIVE SumSeconds(_)
SumSeconds(seq) ==
  IF Len(seq) = 0 THEN 0 ELSE seq[1].seconds + SumSeconds(Tail(seq))

\* d seconds are strictly below 0.8 x target (report), 0.75 x target (podcast)
Below(b, d) ==
  IF b.kind = "report" THEN 5 * d < 4 * b.target ELSE 4 * d < 3 * b.target

\* C16: currentDuration is the sum of the estimates of the turns
\* synthesized so far; every content turn (the third turn onwards, the
\* closing apart) was generated while the sum of the estimates of all
\* earlier turns was strictly below the threshold; so when the opening and
\* the response reach the threshold, or the target is zero or negative, the
\* run has no content turn: its third turn is the closing.
C16_ContentOnlyBelowThreshold ==
  \A r \in Slots :
    LET est == run[r].estimates
        b == run[r].body
    IN /\ run[r].pc # "done" => run[r].currentDuration = SumSeconds(est)
       /\ \A k \in 3..Len(est) : Below(b, SumSeconds(SubSeq(est, 1, k - 1)))
       /\ run[r].phase = "content" => Below(b, SumSeconds(est))
       /\ (Len(est) >= 2 /\ ~Below(b, SumSeconds(SubSeq(est, 1, 2)))) =>
            /\ Len(est) = 2
            /\ run[r].phase # "content"
            /\ Len(run[r].dialogue) <= 3
       /\ b.target <= 0 => run[r].phase # "content" /\ Len(run[r].dialogue) <= 3

\* opening and response of 48 s each reach 0.8 x 120: straight to the closing
C16_Witness ==
  \E r \in Slots :
    /\ run[r].body = Scenario
    /\ run[r].phase = "closing" /\ run[r].pc = "tts"
    /\ SumSeconds(run[r].estimates) = 96
    /\ Len(run[r].dialogue) = 3

-----------------------------------------------------------------------------
(* The two service calls (SpecSolo)                                        *)

NoSpeechKey == "ELEVENLABS_API_KEY is not configured"
NoTextKey == "XAI_API_KEY is not configured"

\* C18: a synthesizeSpeech call without the credential, with a
\* non-successful HTTP status or with an empty audio payload fails (the run
\* returns that error) and writes no file for its turn; without the
\* credential no request is ever sent and the directory step of
\* synthesizeSpeech is never reached.
C18_SpeechFailures ==
  \A r \in Slots :
    /\ ~env.eleven =>
         /\ run[r].ttsRequests = 0 /\ run[r].ttsDirSteps = 0
         /\ run[r].ttsCalls >= 1 => run[r].failMsg = NoSpeechKey
    /\ env.eleven => run[r].ttsRequests = run[r].ttsCalls
    /\ run[r].failMsg \in SpeechFailures \cup {NoSpeechKey} =>
         /\ run[r].pc = "done" /\ ~run[r].result.success
         /\ run[r].result.error = run[r].failMsg
         /\ \A f \in tmpFiles : f.tag # <<run[r].serial, run[r].turn.idx>>
         /\ Len(run[r].audioFiles) = Len(run[r].dialogue) - 1

\* the third speech request is refused; the two files written before are
\* still there (their removal failed), and there is none for the third turn
C18_Witness ==
  \E r \in Slots :
    /\ run[r].failMsg = "ElevenLabs API error"
    /\ run[r].turn.idx = 2
    /\ run[r].rmFailed
    /\ \E f \in tmpFiles : f.tag = <<run[r].serial, 1>>

\* C19: every generateText call sends exactly one request, or none at all
\* when the credential is absent; a call raises when the credential is
\* absent, when the status is not successful or when the answer has no
\* text (the run then returns that error), and otherwise returns its text:
\* every call of a run is pending, has returned a text, or has failed.
C19_GenerateText ==
  \A r \in Slots :
    LET failed == run[r].failMsg \in TextFailures \cup {NoTextKey}
    IN /\ ~env.xai =>
            /\ run[r].genRequests = 0 /\ run[r].genReturned = 0
            /\ run[r].genCalls >= 1 => run[r].failMsg = NoTextKey
       /\ env.xai => run[r].genRequests = run[r].genCalls
       /\ run[r].genCalls = run[r].genReturned
                            + (IF run[r].pc = "text" THEN 1 ELSE 0)
                            + (IF failed THEN 1 ELSE 0)
       /\ failed => /\ run[r].pc = "done" /\ ~run[r].result.success
                    /\ run[r].result.error = run[r].failMsg

\* the fourth answer has no text field
C19_Witness ==
  \E r \in Slots :
    /\ run[r].failMsg = "Invalid response from Grok API"
    /\ run[r].genReturned = 3 /\ run[r].genRequests = 4

AllEstimates == UNION {{run[r].estimates[k] : k \in 1..Len(run[r].estimates)} : r \in Slots}

\* C20 as stated: the estimate added for a turn is exactly its number of
\* words divided by 2.5.
C20_EstimateIsWordsOver2_5 ==
  \A e \in AllEstimates : 5 * e.seconds = 2 * e.words

\* C20 amended: the estimate is a function of the number of words: the
\* number of words divided by 2.5 and rounded up to the next whole second.
C20_EstimateIsCeiling ==
  /\ \A e \in AllEstimates :
       5 * e.seconds >= 2 * e.words /\ 5 * (e.seconds - 1) < 2 * e.words
  /\ \A e1, e2 \in AllEstimates : e1.words = e2.words => e1.seconds = e2.seconds

\* one word is estimated at 1 s, not 0.4 s; 120 words at 48 s
C20_Witness ==
  /\ [words |-> 1, seconds |-> 1] \in AllEstimates
  /\ [words |-> 120, seconds |-> 48] \in AllEstimates

-----------------------------------------------------------------------------
(* The length of a run (SpecLong)                                          *)

\* C17: the number of turns of a run, report or podcast, never exceeds the
\* ceiling of opening, response, content turns up to turn 20 and closing,
\* whatever the number of related document groups and the target are.
C17_TurnCeiling ==
  \A r \in Slots : Len(run[r].dialogue) <= TurnCap + 2

-----------------------------------------------------------------------------
(* Status codes of the media route (SpecMedia)                             *)

\* C14: every request is answered with 400 (id absent or empty), 404 (the
\* sanitised name does not exist in the audio directory), 403 (the resolved
\* path is outside it) or 200 (the id names a regular file inside it), and
\* with no other status.
C14_MediaStatuses ==
  resp.asked =>
    LET filePath == normalize(AUDIO_DIR, basename(resp.id))
    IN /\ resp.status \in {200, 400, 403, 404}
       /\ resp.status = 400 <=> resp.id \in {<< >>, << << >> >>}
       /\ resp.status = 403 => ~startsWith(filePath, AUDIO_DIR)
       /\ resp.status = 200 => resp.served = filePath /\ InsideAudioDir(filePath)

-----------------------------------------------------------------------------
(* The child rows of a document after a sync (SpecSync)                    *)

Children(table, id) == {row \in table : row.documentId = id}
Described(id, entries, made) ==
  IF entries = Absent THEN {}
  ELSE {Row(id, IF entries[k] = 0 THEN 1 ELSE entries[k], made) : k \in 1..Len(entries)}

\* C21: after a successful sync of a document its Page, HandwrittenNote and
\* DocumentStamp rows are exactly those the fetched metadata describes, all
\* of them created by this sync: no row of an earlier sync or of the import
\* survives.
C21_SyncReplacesChildren ==
  sync.status = 200 =>
    /\ Children(db.page, sync.id) = Described(sync.id, sync.metadata.pages, sync.served)
    /\ Children(db.handwrittenNote, sync.id)
         = Described(sync.id, sync.metadata.handwrittenNotes, sync.served)
    /\ Children(db.documentStamp, sync.id)
         = Described(sync.id, sync.metadata.stamps, sync.served)

\* the part of C21 the handler does keep: a table whose field is an array in
\* the metadata holds exactly the rows of that array, all made by this sync
SyncReplacesGivenTables ==
  sync.status = 200 =>
    /\ sync.metadata.pages # Absent =>
         Children(db.page, sync.id) = Described(sync.id, sync.metadata.pages, sync.served)
    /\ sync.metadata.handwrittenNotes # Absent =>
         Children(db.handwrittenNote, sync.id)
           = Described(sync.id, sync.metadata.handwrittenNotes, sync.served)
    /\ sync.metadata.stamps # Absent =>
         Children(db.documentStamp, sync.id)
           = Described(sync.id, sync.metadata.stamps, sync.served)

-----------------------------------------------------------------------------
(* The final file of a failed run (SpecSolo)                               *)

\* C22: when a run has returned success = false, at whatever step it failed,
\* no final output file exists under its identifier.
C22_NoFinalAfterFailure ==
  \A r \in Slots :
    run[r].pc = "done" /\ ~run[r].result.success /\ run[r].id # << >>
      => ~existsFinal(finals, run[r].id)

-----------------------------------------------------------------------------
(* The stream of a request and its keep-alive interval (SpecStream)        *)

Closes(r) == run[r].closeCalls

\* C23: on every path through the handler controller.close() is called
\* exactly once, and the keep-alive interval has been cleared before it.
C23_ClosedExactlyOnce ==
  \A r \in Slots :
    /\ run[r].pc = "done" => Closes(r) = 1 /\ ~run[r].timerAtClose /\ ~run[r].keepAlive
    /\ Running(r) => Closes(r) = 0 /\ run[r].keepAlive

\* what holds of C23 on every path: when the handler has returned the stream
\* is closed and the interval was cleared before each call of close
StreamClosedOnReturn ==
  \A r \in Slots :
    /\ run[r].pc = "done" => run[r].closed /\ ~run[r].timerAtClose /\ ~run[r].keepAlive
    /\ Running(r) => ~run[r].closed /\ run[r].keepAlive

Pings(r) == Len(SelectSeq(run[r].events, LAMBDA ev : ev[1] = "ping"))

\* C24: whenever the interval fires, no event is enqueued on a closed stream;
\* the events of a closed stream never change (a later request in the same
\* slot is another stream, told apart by its serial), and every ping was enqueued
\* by a tick of a request that had started and was not yet closed.
C24_NoEventAfterClose ==
  /\ [](\A r \in Slots : ~run[r].lateEnqueue /\ Pings(r) = run[r].pings
                         /\ (run[r].pc = "idle" => run[r].events = << >>))
  /\ [][\A r \in Slots :
          /\ run[r].closed /\ run'[r].closed /\ run'[r].serial = run[r].serial
               => run'[r].events = run[r].events
          /\ run'[r].pings > run[r].pings =>
               ~run[r].closed /\ run[r].pc \notin {"idle", "done"}]_vars

\* a ping during the first await and one during the last await of a run that
\* then completes
C24_Witness ==
  \E r \in Slots :
    /\ run[r].pc = "done" /\ run[r].result.success /\ run[r].closed
    /\ run[r].pings = MaxPings
    /\ run[r].events[4][1] = "ping"
    /\ run[r].events[Len(run[r].events) - 2][1] = "ping"
    /\ Terminal(run[r].events[Len(run[r].events)])

-----------------------------------------------------------------------------
(* Personas and voices of the turns (SpecCast)                             *)

\* C25: every turn is synthesized with the voice of the persona its text was
\* generated with, whatever the two requested keys are.
C25_VoiceOfPersona ==
  \A r \in Slots : \A k \in 1..Len(run[r].voicesUsed) :
    run[r].voicesUsed[k] = run[r].authors[k].voice

\* the part of C25 that holds: a turn whose speaker key names a persona is
\* synthesized with that persona's voice
KnownKeyVoiceOfPersona ==
  \A r \in Slots :
    /\ Len(run[r].authors) = Len(run[r].voicesUsed)
    /\ Len(run[r].authors) = Len(run[r].dialogue)
    /\ \A k \in 1..Len(run[r].voicesUsed) :
         run[r].dialogue[k].speaker \in DOMAIN personalities =>
           /\ run[r].authors[k] = personalities[run[r].dialogue[k].speaker]
           /\ run[r].voicesUsed[k] = run[r].authors[k].voice

-----------------------------------------------------------------------------
(* groupRelatedDocuments as a partition (SpecGroup)                        *)

RECURSIVE Flatten(_)
Flatten(seqs) == IF Len(seqs) = 0 THEN << >> ELSE Head(seqs) \o Flatten(Tail(seqs))

\* the documentIds of the output, one entry per place an id occurs at
Placed == [k \in 1..Len(Flatten(grouped.relatedGroups) \o grouped.unrelated) |->
             (Flatten(grouped.relatedGroups) \o grouped.unrelated)[k].documentId]

InputIds == {grouped.documents[k].documentId : k \in 1..Len(grouped.documents)} \ {""}

\* C26: every distinct documentId of the input occurs at exactly one place of
\* the output, in one related group or in the unrelated list.
C26_GroupingPartitions ==
  grouped.applied =>
    \A id \in InputIds : Cardinality({k \in 1..Len(Placed) : Placed[k] = id}) = 1

\* the part of C26 that holds: no documentId occurs at two places, every
\* related group has at least two documents, and the output holds only
\* documents of the input
GroupingDisjoint ==
  grouped.applied =>
    /\ \A id \in InputIds : Cardinality({k \in 1..Len(Placed) : Placed[k] = id}) <= 1
    /\ \A k \in 1..Len(Placed) : Placed[k] \in InputIds
    /\ \A g \in 1..Len(grouped.relatedGroups) : Len(grouped.relatedGroups[g]) >= 2

-----------------------------------------------------------------------------
(* The order of the speakers (SpecSolo)                                    *)

TwoKeys(r) == Len(run[r].body.people) = 2 /\ run[r].body.people[1] # run[r].body.people[2]

\* C27: with two distinct participant keys no two consecutive turns of the
\* dialogue have the same speaker.
C27_SpeakersAlternate ==
  \A r \in Slots : TwoKeys(r) =>
    \A k \in 1..(Len(run[r].dialogue) - 1) :
      run[r].dialogue[k].speaker # run[r].dialogue[k + 1].speaker

\* the part of C27 that holds: the turns alternate up to the last but one
SpeakersAlternateBeforeLast ==
  \A r \in Slots : TwoKeys(r) =>
    \A k \in 1..(Len(run[r].dialogue) - 2) :
      run[r].dialogue[k].speaker # run[r].dialogue[k + 1].speaker

-----------------------------------------------------------------------------
(* The per-turn audio files of a run (SpecSolo)                            *)

\* C28: within one run the list of audio files is as long as the dialogue
\* after each synthesis step (one shorter while a turn is being synthesized),
\* the k-th file has turn index k - 1 and the speaker of the k-th turn and
\* holds the audio of the k-th turn's text, and the concatenation receives
\* the files in the order of the dialogue.
C28_AudioFilesMirrorDialogue ==
  \A r \in Slots :
    LET me == run[r] IN
    /\ Running(r) /\ me.pc # "tts" => Len(me.audioFiles) = Len(me.dialogue)
    /\ me.pc = "tts" => Len(me.dialogue) = Len(me.audioFiles) + 1
    /\ Len(me.audioFiles) <= Len(me.dialogue)
    /\ \A k \in 1..Len(me.audioFiles) :
         /\ me.audioFiles[k].idx = k - 1
         /\ me.audioFiles[k].spk = me.dialogue[k].speaker
         /\ (Running(r) => /\ existsTurn(tmpFiles, me.id, me.audioFiles[k])
                           /\ readTurn(tmpFiles, me.id, me.audioFiles[k])
                                = me.dialogue[k].text)
    /\ me.pc \in {"ffcheck", "ffmpeg"} => me.existingFiles = me.audioFiles
    /\ me.concatOf # << >> => me.concatOf = AllTurns(r)

\* five turns synthesized and merged in the order of the dialogue
C28_Witness ==
  \E r \in Slots :
    /\ run[r].pc = "text" /\ run[r].phase = "title"
    /\ Len(run[r].audioFiles) = 5
    /\ run[r].audioFiles[5].idx = 4
    /\ run[r].concatOf = AllTurns(r)

-----------------------------------------------------------------------------
(* The polling of the create-collection dialog (SpecDialog)                *)

\* C29: once the polling of a job was cancelled (unmount, reset) or has
\* finished (complete, error, failed) no status request is issued for that
\* job any more, and at most one poll timeout is pending.
C29_PollingStops ==
  /\ ~dialog.late
  /\ Cardinality(dialog.timers) <= 1

\* the part of C29 that holds: at most one timeout is pending and at most one
\* request is in flight, never both; a finished job is not polled again; the
\* form is reset only while no job is polled
PollingOneAtATime ==
  /\ Cardinality(dialog.timers) + Cardinality(dialog.inflight) <= 1
  /\ dialog.mounted => ~dialog.late
  /\ dialog.mounted /\ ~dialog.isSubmitting => Polled(dialog) = {}

-----------------------------------------------------------------------------
(* The enabled document groups (SpecProvider)                              *)

Enabled == Range(ctx.enabledGroups)
EnabledBefore == Range(ctx.last.before)

\* C30: starting with some group enabled, some group is enabled after every
\* sequence of toggleGroup, addDocumentGroup and refreshGroups, and a
\* toggleGroup of a group that is not the only enabled one flips that group
\* and no other.
C30_SomeGroupStaysEnabled ==
  /\ Enabled # {}
  /\ ctx.last.op = "toggleGroup" /\ EnabledBefore # {ctx.last.group} =>
       \A g \in GroupIds :
          (g \in Enabled) = IF g = ctx.last.group THEN g \notin EnabledBefore
                            ELSE g \in EnabledBefore

\* the part of C30 that holds: toggleGroup changes the membership of no
\* other group, adds a group that was not enabled, and keeps a list of one
ToggleTouchesOneGroup ==
  ctx.last.op = "toggleGroup" =>
    /\ \A g \in GroupIds \ {ctx.last.group} : (g \in Enabled) = (g \in EnabledBefore)
    /\ ctx.last.group \notin EnabledBefore => ctx.last.group \in Enabled
    /\ ctx.last.before = <<ctx.last.group>> => ctx.enabledGroups = ctx.last.before

====
